---- MODULE Spec2Model ----
(***************************************************************************)
(* Model of api_discovery.py: the JAX-RS endpoint extractor                *)
(* (JaxRSAnalyzer), the OpenAPI document generator and main().             *)
(*                                                                         *)
(* Source text is modelled as a sequence of lexical tokens; two adjacent   *)
(* tokens are separated by exactly one whitespace character and the text   *)
(* ends with a newline.  Every regular expression of the source is         *)
(* translated into a matcher over that token sequence.  String values      *)
(* (paths, parameter names) are sequences of one-character strings, so     *)
(* that slash trimming is computed character by character.                 *)
(***************************************************************************)
EXTENDS Integers, Sequences, FiniteSets, TLC

\* ------------------------------------------------------------------ bounds
MaxFiles == 2
MaxPathLen == 3
MaxArgs == 2

\* ------------------------------------------------------------------ tokens
Ann(n) == [k |-> "ann", v |-> n, s |-> <<>>]
Str(p) == [k |-> "str", v |-> "", s |-> p]
Word(w) == [k |-> "word", v |-> w, s |-> <<>>]
Sym(c) == [k |-> "sym", v |-> c, s |-> <<>>]
Comment(w) == [k |-> "comment", v |-> w, s |-> <<>>]

LP == Sym("(")
RP == Sym(")")

\* Number of characters of the names the model uses.
Width ==
  [Path |-> 4, GET |-> 3, POST |-> 4, PUT |-> 3, DELETE |-> 6, HEAD |-> 4,
   OPTIONS |-> 7, PATCH |-> 5, Consumes |-> 8, Produces |-> 8,
   PathParam |-> 9, QueryParam |-> 10, HeaderParam |-> 11,
   CookieParam |-> 11, FormParam |-> 9, public |-> 6, class |-> 5,
   Response |-> 8, String |-> 6, int |-> 3, Foo |-> 3, m1 |-> 2, m2 |-> 2,
   id |-> 2, q |-> 1, body |-> 4, Javadoc |-> 120]

TokLen(t) ==
  CASE t.k = "ann" -> 1 + Width[t.v]
    [] t.k = "str" -> 2 + Len(t.s)
    [] t.k = "word" -> Width[t.v]
    [] t.k = "comment" -> Width[t.v]
    [] OTHER -> 1

\* Tok(c, i): the token at position i, or an end-of-text sentinel.
EOT == Sym("")
Tok(c, i) == IF i >= 1 /\ i <= Len(c) THEN c[i] ELSE EOT

IsWord(t) == t.k = "word"
IsAnn(t) == t.k = "ann"
IsStr(t) == t.k = "str" /\ Len(t.s) >= 1

\* ------------------------------------------------------- HttpMethod (11-18)
HttpMethod == {"GET", "POST", "PUT", "DELETE", "PATCH", "HEAD", "OPTIONS"}

\* JAX_RS_ANNOTATIONS restricted to its HttpMethod entries, in dict order.
JAX_RS_HTTP_ANNOTATIONS ==
  <<"GET", "POST", "PUT", "DELETE", "HEAD", "OPTIONS", "PATCH">>

\* JAX_RS_ANNOTATIONS['@' + param_type] for the parameter-binding entries.
JAX_RS_PARAM_LOCATION ==
  [PathParam |-> "path", QueryParam |-> "query", HeaderParam |-> "header",
   CookieParam |-> "cookie", FormParam |-> "formData"]

None == [none |-> TRUE]

\* ------------------------------------------------------------ _combine_paths
RECURSIVE rstrip(_)
rstrip(p) ==
  IF p # <<>> /\ p[Len(p)] = "/" THEN rstrip(SubSeq(p, 1, Len(p) - 1)) ELSE p

RECURSIVE lstrip(_)
lstrip(p) ==
  IF p # <<>> /\ p[1] = "/" THEN lstrip(Tail(p)) ELSE p

\* Variant of _combine_paths that keeps the leading slashes of method_path.
_combine_paths_NoLstrip(base_path, method_path) ==
  IF base_path = <<>> THEN (IF method_path = <<>> THEN <<"/">> ELSE method_path)
  ELSE IF method_path = <<>> THEN base_path
  ELSE rstrip(base_path) \o <<"/">> \o method_path

\* An absent path (Python None) and the empty string are both <<>>: every
\* use in the source tests them with "not" / "or".
_combine_paths(base_path, method_path) ==
  IF base_path = <<>> THEN (IF method_path = <<>> THEN <<"/">> ELSE method_path)
  ELSE IF method_path = <<>> THEN base_path
  ELSE rstrip(base_path) \o <<"/">> \o lstrip(method_path)

\* --------------------------------------------------------- regex helpers
Min(S) == CHOOSE x \in S : \A y \in S : x <= y

\* Position of the first element of S, 0 when there is none (re.search).
First(S) == IF S = {} THEN 0 ELSE Min(S)

\* "[^)]*\)" read from position i: the position of the first ")" at or
\* after i, 0 when the text has none.
ClosePos(c, i) == First({j \in i..Len(c) : c[j] = RP})

\* "@Path\s*\(\s*["\']([^"\']+)["\']\s*\)" matched at position i.
PathDeclAt(c, i) ==
  /\ Tok(c, i) = Ann("Path")
  /\ Tok(c, i + 1) = LP
  /\ IsStr(Tok(c, i + 2))
  /\ Tok(c, i + 3) = RP

\* "public\s+class\s+(\w+)" matched at position i.
ClassDeclAt(c, i) ==
  /\ Tok(c, i) = Word("public")
  /\ Tok(c, i + 1) = Word("class")
  /\ IsWord(Tok(c, i + 2))

\* Offset in characters of token j inside the slice of the text that starts
\* right after token i (content[path_pos:]).
RECURSIVE Offset(_, _, _)
Offset(c, i, j) ==
  IF j <= i + 1 THEN 1 ELSE Offset(c, i, j - 1) + TokLen(c[j - 1]) + 1

\* -------------------------------------------------------- _is_jaxrs_resource
\* Variant of the qualification patterns that also lists @PATCH.
QualifyingMethods_WithPatch == {"GET", "POST", "PUT", "DELETE", "PATCH"}

QualifyingMethods == {"GET", "POST", "PUT", "DELETE"}

_is_jaxrs_resource(content) ==
  \E i \in 1..Len(content) :
    \/ content[i] = Ann("Path") /\ Tok(content, i + 1) = LP
    \/ IsAnn(content[i]) /\ content[i].v \in QualifyingMethods

\* ------------------------------------------------------- _extract_class_name
_extract_class_name(content) ==
  LET i == First({j \in 1..Len(content) : ClassDeclAt(content, j)})
  IN IF i # 0 THEN content[i + 2].v ELSE "Unknown"

\* ------------------------------------------------------- _extract_class_path
_extract_class_path(content) ==
  LET adjacent == First({j \in 1..Len(content) :
                     /\ PathDeclAt(content, j)
                     /\ \/ Tok(content, j + 4) = Word("class")
                        \/ /\ Tok(content, j + 4) = Word("public")
                           /\ Tok(content, j + 5) = Word("class")})
      path_match == First({j \in 1..Len(content) : PathDeclAt(content, j)})
      class_match == First({j \in (path_match + 4)..Len(content) :
                              ClassDeclAt(content, j)})
  IN IF adjacent # 0 THEN content[adjacent + 2].s
     ELSE IF /\ path_match # 0
             /\ class_match # 0
             /\ Offset(content, path_match + 3, class_match) < 100
          THEN content[path_match + 2].s
     ELSE <<>>

\* -------------------------------------------------------- _extract_endpoints
\* One repetition of "@\w+\s*(?:\([^)]*\))?\s*" starting at the annotation
\* token i: the position of its last token.
AnnUnitEnd(c, i) ==
  IF Tok(c, i + 1) = LP /\ ClosePos(c, i + 2) # 0
  THEN ClosePos(c, i + 2) ELSE i

\* The greedy "( ... )*" of method_pattern from position i: next is the
\* position after the last repetition, last the position where the last
\* repetition starts (0 when there was no repetition).
RECURSIVE AnnRun(_, _, _)
AnnRun(c, i, last) ==
  IF IsAnn(Tok(c, i)) THEN AnnRun(c, AnnUnitEnd(c, i) + 1, i)
  ELSE [next |-> i, last |-> last]

\* match.group(1): a repeated group keeps the text of its LAST repetition.
Group1(c, run) ==
  IF run.last = 0 THEN <<>> ELSE SubSeq(c, run.last, run.next - 1)

\* method_pattern matched at position i.
MethodMatchAt(c, i) ==
  LET run == AnnRun(c, i, 0)
      j == run.next
      close == ClosePos(c, j + 4)
  IN IF /\ Tok(c, j) = Word("public")
        /\ IsWord(Tok(c, j + 1))
        /\ IsWord(Tok(c, j + 2))
        /\ Tok(c, j + 3) = LP
        /\ close # 0
     THEN [ok |-> TRUE, group0 |-> SubSeq(c, i, close),
           group1 |-> Group1(c, run), group2 |-> c[j + 2].v, end |-> close]
     ELSE [ok |-> FALSE, group0 |-> <<>>, group1 |-> <<>>, group2 |-> "",
           end |-> 0]

\* re.finditer(method_pattern, content): leftmost, non-overlapping matches.
RECURSIVE MethodMatches(_, _)
MethodMatches(c, i) ==
  IF i > Len(c) THEN <<>>
  ELSE LET m == MethodMatchAt(c, i)
       IN IF m.ok THEN <<m>> \o MethodMatches(c, m.end + 1)
          ELSE MethodMatches(c, i + 1)

\* "annotation in annotations" for the marker "@" + name.  String literals
\* of the modelled text hold no "@", and no modelled annotation name extends
\* an HTTP-method name.
ContainsMarker(annotations, name) ==
  \E i \in 1..Len(annotations) : annotations[i] = Ann(name)

\* Variant of _extract_http_method that falls back to GET.
_extract_http_method_DefaultGet(annotations) ==
  LET hits == {i \in 1..Len(JAX_RS_HTTP_ANNOTATIONS) :
                 ContainsMarker(annotations, JAX_RS_HTTP_ANNOTATIONS[i])}
  IN IF hits = {} THEN "GET" ELSE JAX_RS_HTTP_ANNOTATIONS[Min(hits)]

_extract_http_method(annotations) ==
  LET hits == {i \in 1..Len(JAX_RS_HTTP_ANNOTATIONS) :
                 ContainsMarker(annotations, JAX_RS_HTTP_ANNOTATIONS[i])}
  IN IF hits = {} THEN "" ELSE JAX_RS_HTTP_ANNOTATIONS[Min(hits)]

_extract_method_path(annotations) ==
  LET i == First({j \in 1..Len(annotations) : PathDeclAt(annotations, j)})
  IN IF i # 0 THEN annotations[i + 2].s ELSE <<>>

_map_java_to_openapi_type(java_type) ==
  CASE java_type \in {"String", "Date", "LocalDate", "LocalDateTime"} -> "string"
    [] java_type \in {"int", "Integer", "long", "Long"} -> "integer"
    [] java_type \in {"float", "Float", "double", "Double"} -> "number"
    [] java_type \in {"boolean", "Boolean"} -> "boolean"
    [] OTHER -> "string"

ParamAnnotations ==
  {"PathParam", "QueryParam", "HeaderParam", "CookieParam", "FormParam"}

CollectedParams == {"PathParam", "QueryParam", "HeaderParam", "CookieParam"}

\* param_pattern matched at position i.
ParamMatchAt(c, i) ==
  /\ IsAnn(Tok(c, i)) /\ Tok(c, i).v \in ParamAnnotations
  /\ Tok(c, i + 1) = LP
  /\ IsStr(Tok(c, i + 2))
  /\ Tok(c, i + 3) = RP
  /\ IsWord(Tok(c, i + 4))
  /\ IsWord(Tok(c, i + 5))

\* Variant of MakeParameter that marks every parameter required.
MakeParameter_AlwaysRequired(param_type, param_name, java_type) ==
  [name |-> param_name, in_ |-> JAX_RS_PARAM_LOCATION[param_type],
   type_ |-> _map_java_to_openapi_type(java_type),
   required |-> TRUE]

\* Lines 238-250: the Parameter built from one match of param_pattern.
MakeParameter(param_type, param_name, java_type) ==
  LET in_ == JAX_RS_PARAM_LOCATION[param_type]
  IN [name |-> param_name, in_ |-> in_,
      type_ |-> _map_java_to_openapi_type(java_type),
      required |-> (in_ = "path")]

RECURSIVE ParamScan(_, _)
ParamScan(c, i) ==
  IF i > Len(c) THEN <<>>
  ELSE IF ParamMatchAt(c, i)
       THEN (IF c[i].v \in CollectedParams
             THEN <<MakeParameter(c[i].v, c[i + 2].s, c[i + 4].v)>>
             ELSE <<>>) \o ParamScan(c, i + 6)
       ELSE ParamScan(c, i + 1)

_extract_parameters(method_signature) == ParamScan(method_signature, 1)

\* The loop body of _extract_endpoints for one match: <<endpoint>> or <<>>.
\* consumes/produces are left out of the Endpoint record.
EndpointOf(m, base_path) ==
  LET annotations == m.group1
      http_method == _extract_http_method(annotations)
  IN IF http_method = "" THEN <<>>
     ELSE <<[path |-> _combine_paths(base_path,
                                     _extract_method_path(annotations)),
             method |-> http_method,
             operation_id |-> m.group2,
             parameters |-> _extract_parameters(m.group0)]>>

RECURSIVE EndpointsOf(_, _)
EndpointsOf(ms, base_path) ==
  IF ms = <<>> THEN <<>>
  ELSE EndpointOf(Head(ms), base_path) \o EndpointsOf(Tail(ms), base_path)

_extract_endpoints(content, base_path) ==
  EndpointsOf(MethodMatches(content, 1), base_path)

\* ------------------------------------------------------------ source files
\* A scanned file is described by the declarations it holds and read as the
\* token sequence they are written with.  ok = FALSE is a file whose read
\* raises (open() or the utf-8 decoding fails).
SrcAnn(name, arg) == [name |-> name, arg |-> arg]
SrcArg(bind, pname, type, var) ==
  [bind |-> bind, pname |-> pname, type |-> type, var |-> var]
SrcMethod(anns, args) == [anns |-> anns, name |-> "", args |-> args]

RenderAnn(a) ==
  IF a.arg = <<>> THEN <<Ann(a.name)>> ELSE <<Ann(a.name), LP, Str(a.arg), RP>>

RECURSIVE RenderAnns(_)
RenderAnns(as) ==
  IF as = <<>> THEN <<>> ELSE RenderAnn(Head(as)) \o RenderAnns(Tail(as))

RenderArg(a) ==
  (IF a.bind = "" THEN <<>> ELSE <<Ann(a.bind), LP, Str(a.pname), RP>>)
    \o <<Word(a.type), Word(a.var)>>

RECURSIVE RenderArgs(_)
RenderArgs(args) ==
  IF args = <<>> THEN <<>>
  ELSE IF Len(args) = 1 THEN RenderArg(args[1])
  ELSE RenderArg(Head(args)) \o <<Sym(",")>> \o RenderArgs(Tail(args))

RenderSignature(args) == <<LP>> \o RenderArgs(args) \o <<RP>>

RenderMethod(m) ==
  RenderAnns(m.anns) \o <<Word("public"), Word("Response"), Word(m.name)>>
    \o RenderSignature(m.args) \o <<Sym("{"), Sym("}")>>

RECURSIVE RenderMethods(_)
RenderMethods(ms) ==
  IF ms = <<>> THEN <<>> ELSE RenderMethod(Head(ms)) \o RenderMethods(Tail(ms))

RenderFile(f) ==
  RenderAnns(f.class_anns)
    \o (IF f.javadoc THEN <<Comment("Javadoc")>> ELSE <<>>)
    \o <<Word("public"), Word("class"), Word("Foo"), Sym("{")>>
    \o RenderMethods(f.methods) \o <<Sym("}")>>

Slash == "/"
PathA == <<Slash, "a", Slash>>
PathB == <<Slash, "b">>
PathB2 == <<"b", Slash>>
NameId == <<"i", "d">>
NameQ == <<"q">>

GetPlain == SrcMethod(<<SrcAnn("GET", <<>>)>>, <<>>)
PostBody == SrcMethod(<<SrcAnn("POST", <<>>)>>,
                      <<SrcArg("", <<>>, "String", "body")>>)
PatchPlain == SrcMethod(<<SrcAnn("PATCH", <<>>)>>, <<>>)
PathOnly == SrcMethod(<<SrcAnn("Path", PathB)>>,
                      <<SrcArg("PathParam", NameId, "String", "id")>>)
BindOnly == SrcMethod(<<>>, <<SrcArg("PathParam", NameId, "String", "id")>>)
GetThenPath == SrcMethod(<<SrcAnn("GET", <<>>), SrcAnn("Path", PathB2)>>, <<>>)
PathThenGet == SrcMethod(<<SrcAnn("Path", PathB), SrcAnn("GET", <<>>)>>, <<>>)
GetParams == SrcMethod(<<SrcAnn("GET", <<>>)>>,
                       <<SrcArg("PathParam", NameId, "String", "id"),
                         SrcArg("QueryParam", NameQ, "int", "q")>>)

MethodShapes ==
  {GetPlain, PostBody, PatchPlain, PathOnly, BindOnly, GetThenPath,
   PathThenGet, GetParams}

\* Second methods of the files that hold two methods.
SecondShapes == {GetPlain, PostBody, PathOnly}

MethodNames == <<"m1", "m2">>

Named(ms) == [i \in 1..Len(ms) |-> [ms[i] EXCEPT !.name = MethodNames[i]]]

MethodLists ==
  {<<>>} \cup {Named(<<m>>) : m \in MethodShapes}
         \cup {Named(<<GetPlain, n>>) : n \in SecondShapes}

SrcFile(class_anns, javadoc, methods) ==
  [ok |-> TRUE, class_anns |-> class_anns, javadoc |-> javadoc,
   methods |-> methods]

Unreadable ==
  [ok |-> FALSE, class_anns |-> <<>>, javadoc |-> FALSE, methods |-> <<>>]

ClassPathA == <<SrcAnn("Path", PathA)>>

Files ==
  {Unreadable}
    \cup {SrcFile(h, FALSE, ms) : h \in {<<>>, ClassPathA}, ms \in MethodLists}
    \cup {SrcFile(ClassPathA \o <<SrcAnn("Produces", <<"x">>)>>, j,
                  Named(<<GetPlain>>)) : j \in BOOLEAN}

FileLists == UNION {[1..n -> Files] : n \in 0..MaxFiles}

\* -------------------------------------------------------- _analyze_java_file
_analyze_java_file(file) ==
  IF ~file.ok THEN None
  ELSE LET content == RenderFile(file)
       IN IF ~_is_jaxrs_resource(content) THEN None
          ELSE LET base_path == _extract_class_path(content)
               IN [class_name |-> _extract_class_name(content),
                   base_path |-> base_path,
                   endpoints |-> _extract_endpoints(content, base_path)]

\* Variant of Keep that does not look at the endpoints.
Keep_AnyResource(resource) == resource # None

\* analyze, line 85: "if resource and resource.endpoints".
Keep(resource) == resource # None /\ resource.endpoints # <<>>

\* ------------------------------------------------ OpenAPIGenerator.generate
Lower ==
  [GET |-> "get", POST |-> "post", PUT |-> "put", DELETE |-> "delete",
   PATCH |-> "patch", HEAD |-> "head", OPTIONS |-> "options"]

EmptyDict == [x \in {} |-> 0]

Operation(resource, endpoint) ==
  [operationId |-> endpoint.operation_id,
   tags |-> <<resource.class_name>>,
   parameters |-> [i \in 1..Len(endpoint.parameters) |->
                     [name |-> endpoint.parameters[i].name,
                      in_ |-> endpoint.parameters[i].in_,
                      required |-> endpoint.parameters[i].required,
                      type |-> endpoint.parameters[i].type_]],
   requestBody |-> endpoint.method \in {"POST", "PUT", "PATCH"}]

\* Variant of AddOperation that resets the entry of the path every time.
AddOperation_ResetPath(paths, resource, endpoint) ==
  (endpoint.path :>
     (Lower[endpoint.method] :> Operation(resource, endpoint))) @@ paths

\* Lines 315-359: the body of the inner loop for one endpoint.
AddOperation(paths, resource, endpoint) ==
  LET path == endpoint.path
      method == Lower[endpoint.method]
      entry == IF path \in DOMAIN paths THEN paths[path] ELSE EmptyDict
  IN (path :> ((method :> Operation(resource, endpoint)) @@ entry)) @@ paths

RECURSIVE AddEndpoints(_, _, _)
AddEndpoints(paths, resource, endpoints) ==
  IF endpoints = <<>> THEN paths
  ELSE AddEndpoints(AddOperation(paths, resource, Head(endpoints)),
                    resource, Tail(endpoints))

RECURSIVE AddResources(_, _)
AddResources(paths, api_resources) ==
  IF api_resources = <<>> THEN paths
  ELSE AddResources(AddEndpoints(paths, Head(api_resources),
                                 Head(api_resources).endpoints),
                    Tail(api_resources))

generate(api_resources) ==
  [openapi |-> "3.0.0", paths |-> AddResources(EmptyDict, api_resources)]

NotGenerated == [openapi |-> "", paths |-> EmptyDict]

\* Variant of NoApisFound that never takes the early return.
NoApisFound_Never(api_resources) == FALSE

\* main, line 416: "if not api_resources".
NoApisFound(api_resources) == api_resources = <<>>

\* -------------------------------------------------------------------- state
VARIABLES
  pc,            \* position in main / analyze
  java_files,    \* analyze: the list returned by _find_java_files
  idx,           \* analyze: position of the for loop in java_files
  resource,      \* analyze: the loop variable "resource"
  resources,     \* JaxRSAnalyzer.resources
  openapi_spec,  \* main: the generated document
  outputs,       \* names of the files written into output_dir
  arg_base,      \* argument base_path of a direct call of _combine_paths
  arg_method,    \* argument method_path of that call
  arg_args,      \* argument list whose text is given to _extract_parameters
  ret,           \* value returned by the direct call
  called         \* the direct call has returned

vars == <<pc, java_files, idx, resource, resources, openapi_spec, outputs,
          arg_base, arg_method, arg_args, ret, called>>

mainVars == <<pc, java_files, idx, resource, resources, openapi_spec, outputs>>
callVars == <<arg_base, arg_method, arg_args, ret, called>>

MainIdle ==
  /\ java_files = <<>>
  /\ idx = 0
  /\ resource = None
  /\ resources = <<>>
  /\ openapi_spec = NotGenerated
  /\ outputs = {}

CallIdle ==
  /\ arg_base = <<>>
  /\ arg_method = <<>>
  /\ arg_args = <<>>
  /\ ret = <<>>
  /\ called = FALSE

\* ----------------------------------------------------------- main / analyze
Init == pc = "main" /\ MainIdle /\ CallIdle

\* main lines 408-414 and analyze line 81.
FindJavaFiles ==
  /\ pc = "main"
  /\ java_files' \in FileLists
  /\ idx' = 1
  /\ pc' = "loop"
  /\ UNCHANGED <<resource, resources, openapi_spec, outputs>>
  /\ UNCHANGED callVars

\* Variant of AnalyzeFile without the try/except: a failing read ends the run.
AnalyzeFile_NoCatch ==
  /\ pc = "loop"
  /\ idx <= Len(java_files)
  /\ IF java_files[idx].ok
     THEN /\ resource' = _analyze_java_file(java_files[idx])
          /\ resources' = IF Keep(resource') THEN Append(resources, resource')
                          ELSE resources
          /\ idx' = idx + 1
          /\ pc' = pc
     ELSE /\ pc' = "done"
          /\ UNCHANGED <<resource, resources, idx>>
  /\ UNCHANGED <<java_files, openapi_spec, outputs>>
  /\ UNCHANGED callVars

\* analyze lines 83-86: one iteration of the loop.
AnalyzeFile ==
  /\ pc = "loop"
  /\ idx <= Len(java_files)
  /\ resource' = _analyze_java_file(java_files[idx])
  /\ resources' = IF Keep(resource') THEN Append(resources, resource')
                  ELSE resources
  /\ idx' = idx + 1
  /\ UNCHANGED <<pc, java_files, openapi_spec, outputs>>
  /\ UNCHANGED callVars

\* analyze line 88.
AnalyzeReturn ==
  /\ pc = "loop"
  /\ idx > Len(java_files)
  /\ pc' = "returned"
  /\ UNCHANGED <<java_files, idx, resource, resources, openapi_spec, outputs>>
  /\ UNCHANGED callVars

\* main lines 416-418.
MainNoApis ==
  /\ pc = "returned"
  /\ NoApisFound(resources)
  /\ pc' = "done"
  /\ UNCHANGED <<java_files, idx, resource, resources, openapi_spec, outputs>>
  /\ UNCHANGED callVars

\* main lines 420-433.
MainOpenAPI ==
  /\ pc = "returned"
  /\ ~NoApisFound(resources)
  /\ openapi_spec' = generate(resources)
  /\ outputs' = outputs \cup {"openapi.yaml"}
  /\ pc' = "backstage"
  /\ UNCHANGED <<java_files, idx, resource, resources>>
  /\ UNCHANGED callVars

\* main lines 436-441.
MainBackstage ==
  /\ pc = "backstage"
  /\ outputs' = outputs \cup {"catalog-info.yaml"}
  /\ pc' = "done"
  /\ UNCHANGED <<java_files, idx, resource, resources, openapi_spec>>
  /\ UNCHANGED callVars

Next ==
  \/ FindJavaFiles
  \/ AnalyzeFile
  \/ AnalyzeReturn
  \/ MainNoApis
  \/ MainOpenAPI
  \/ MainBackstage

Spec == Init /\ [][Next]_vars

\* ------------------------------------------- direct calls of _combine_paths
Chars == {Slash, "a", "b"}
PathStrings == UNION {[1..n -> Chars] : n \in 0..MaxPathLen}

InitCombine ==
  /\ pc = "call" /\ MainIdle
  /\ arg_base \in PathStrings
  /\ arg_method \in PathStrings
  /\ arg_args = <<>>
  /\ ret = <<>>
  /\ called = FALSE

CallCombine ==
  /\ pc = "call"
  /\ ~called
  /\ ret' = _combine_paths(arg_base, arg_method)
  /\ called' = TRUE
  /\ UNCHANGED <<arg_base, arg_method, arg_args>>
  /\ UNCHANGED mainVars

NextCombine == CallCombine

SpecCombine == InitCombine /\ [][NextCombine]_vars

\* -------------------------------------- direct calls of _extract_parameters
BindKinds == ParamAnnotations \cup {""}
ArgShapes ==
  {SrcArg(b, IF t = "int" THEN NameQ ELSE NameId, t, "id") :
     b \in BindKinds, t \in {"String", "int"}}
ArgLists == UNION {[1..n -> ArgShapes] : n \in 0..MaxArgs}

InitParams ==
  /\ pc = "call" /\ MainIdle
  /\ arg_base = <<>>
  /\ arg_method = <<>>
  /\ arg_args \in ArgLists
  /\ ret = <<>>
  /\ called = FALSE

CallExtractParameters ==
  /\ pc = "call"
  /\ ~called
  /\ ret' = _extract_parameters(RenderSignature(arg_args))
  /\ called' = TRUE
  /\ UNCHANGED <<arg_base, arg_method, arg_args>>
  /\ UNCHANGED mainVars

NextParams == CallExtractParameters

SpecParams == InitParams /\ [][NextParams]_vars

\* ------------------------------------------------------------------ claims
\* The file the loop of analyze has just handled (defined when idx > 1).
Last == java_files[idx - 1]

Range(q) == {q[i] : i \in 1..Len(q)}

\* What a source file declares, read from its declarations.
HasHttpMarker(m) == \E a \in Range(m.anns) : a.name \in HttpMethod
HasPathDecl(m) == \E a \in Range(m.anns) : a.name = "Path"
DeclaredHttp(m) == (CHOOSE a \in Range(m.anns) : a.name \in HttpMethod).name
DeclaredPath(m) == (CHOOSE a \in Range(m.anns) : a.name = "Path").arg
DeclaresMarker(f) ==
  \/ \E a \in Range(f.class_anns) : a.name = "Path"
  \/ \E m \in Range(f.methods) : \E a \in Range(m.anns) :
       a.name \in {"Path", "GET", "POST", "PUT", "DELETE"}
IsCollected(a) == a.bind \in CollectedParams
DeclaredBindings(args) == SelectSeq(args, IsCollected)

\* p with its trailing slashes removed is the prefix of length k.
TrailingTrimmed(p, k) ==
  /\ k = 0 \/ p[k] # Slash
  /\ \A i \in (k + 1)..Len(p) : p[i] = Slash

\* p with its leading slashes removed is the suffix that starts at j.
LeadingTrimmed(p, j) ==
  /\ j > Len(p) \/ p[j] # Slash
  /\ \A i \in 1..(j - 1) : p[i] = Slash

\* C1 (as stated): for a non-empty class path and a non-empty method path
\* the result is the class path without its trailing slashes, one slash,
\* and the method path with its leading AND trailing slashes removed, so
\* that base "/a" with method "b/" gives "/a/b".
C1_Original ==
  (called /\ arg_base # <<>> /\ arg_method # <<>>) =>
    \E k \in 0..Len(arg_base), j \in 1..(Len(arg_method) + 1),
       l \in 0..Len(arg_method) :
      /\ TrailingTrimmed(arg_base, k)
      /\ LeadingTrimmed(arg_method, j)
      /\ TrailingTrimmed(arg_method, l)
      /\ ret = SubSeq(arg_base, 1, k) \o <<Slash>> \o SubSeq(arg_method, j, l)

\* C1 (amended): for a non-empty class path and a non-empty method path the
\* result is the class path without its trailing slashes, exactly one slash,
\* and the method path without its leading slashes; the leading slashes of
\* the class path and the trailing slashes of the method path are kept.
\* Base "/a/" with method "/b" gives "/a/b"; base "/a" with method "b/"
\* gives "/a/b/".
C1_CombinePaths ==
  (called /\ arg_base # <<>> /\ arg_method # <<>>) =>
    /\ \E k \in 0..Len(arg_base), j \in 1..(Len(arg_method) + 1) :
         /\ TrailingTrimmed(arg_base, k)
         /\ LeadingTrimmed(arg_method, j)
         /\ ret = SubSeq(arg_base, 1, k) \o <<Slash>>
                    \o SubSeq(arg_method, j, Len(arg_method))
    /\ (arg_base = <<Slash, "a", Slash>> /\ arg_method = <<Slash, "b">>)
         => ret = <<Slash, "a", Slash, "b">>
    /\ (arg_base = <<Slash, "a">> /\ arg_method = <<"b", Slash>>)
         => ret = <<Slash, "a", Slash, "b", Slash>>

C1_Witness ==
  /\ called
  /\ arg_base = <<Slash, "a">>
  /\ arg_method = <<"b", Slash>>
  /\ ret = <<Slash, "a", Slash, "b", Slash>>

\* C2: an output file exists (or the document has been generated) only once
\* analyze has gone through the whole file list and with a non-empty
\* resource list; a run that ends with an empty resource list has written
\* no file and generated nothing.
C2_OutputsOnlyForResources ==
  /\ (outputs # {} \/ openapi_spec # NotGenerated) =>
       /\ pc \in {"backstage", "done"}
       /\ idx > Len(java_files)
       /\ resources # <<>>
  /\ (pc = "done" /\ resources = <<>>) =>
       /\ outputs = {}
       /\ openapi_spec = NotGenerated

C2_Witness ==
  /\ pc = "done"
  /\ resources = <<>>
  /\ outputs = {}
  /\ \E i \in 1..Len(java_files) :
       java_files[i].ok /\ _is_jaxrs_resource(RenderFile(java_files[i]))

\* The result of analyze over the file list fs.
RECURSIVE AnalyzeAll(_)
AnalyzeAll(fs) ==
  IF fs = <<>> THEN <<>>
  ELSE LET r == _analyze_java_file(Head(fs))
       IN (IF Keep(r) THEN <<r>> ELSE <<>>) \o AnalyzeAll(Tail(fs))

Readable(f) == f.ok
NonFailing(fs) == SelectSeq(fs, Readable)

\* C3: a file whose read raises adds nothing to the accumulator and the
\* loop goes on: after any number of iterations the accumulator is the
\* result of analyze over the non-failing files handled so far, and the
\* list analyze returns is its result over all the non-failing files.
C3_FailingFilesSkipped ==
  /\ pc = "loop" =>
       resources = AnalyzeAll(NonFailing(SubSeq(java_files, 1, idx - 1)))
  /\ pc \in {"returned", "backstage", "done"} =>
       resources = AnalyzeAll(NonFailing(java_files))

C3_Witness ==
  /\ pc = "returned"
  /\ Len(java_files) >= 2
  /\ ~java_files[1].ok
  /\ java_files[2].ok
  /\ resources # <<>>

\* C4: every resource in the accumulator has at least one endpoint.
C4_ResourcesHaveEndpoints ==
  \A i \in 1..Len(resources) : Len(resources[i].endpoints) >= 1

C4_Witness ==
  /\ idx > 1
  /\ resource # None
  /\ resource.endpoints = <<>>
  /\ resources = <<>>

DocPairs(doc) ==
  UNION {{<<p, m>> : m \in DOMAIN doc.paths[p]} : p \in DOMAIN doc.paths}

ModelPairs(rs) ==
  UNION {{<<e.path, Lower[e.method]>> : e \in Range(r.endpoints)} :
           r \in Range(rs)}

\* C5: the (path, method) pairs under "paths" of the generated document are
\* exactly the (path, method) pairs of the endpoints of the resources, the
\* method being written in lower case in the document.
C5_PathsMatchModel ==
  openapi_spec # NotGenerated => DocPairs(openapi_spec) = ModelPairs(resources)

C5_Witness ==
  /\ openapi_spec # NotGenerated
  /\ \E r \in Range(resources) :
       \E i, j \in 1..Len(r.endpoints) :
         /\ i # j
         /\ r.endpoints[i].path = r.endpoints[j].path
         /\ r.endpoints[i].method # r.endpoints[j].method

\* C6: a readable file yields a resource exactly when it declares a path
\* or a GET/POST/PUT/DELETE method; a file with none of them yields none.
C6_QualifiesIffMarker ==
  (idx > 1 /\ Last.ok) => ((resource # None) <=> DeclaresMarker(Last))

C6_Witness ==
  /\ idx > 1
  /\ Last.ok
  /\ resource = None
  /\ \E m \in Range(Last.methods) : \E a \in Range(m.anns) : a.name = "PATCH"

\* C7: every emitted endpoint belongs to a method that carries an
\* HTTP-method annotation; a method without one has no endpoint.
C7_NoMarkerNoEndpoint ==
  (idx > 1 /\ resource # None) =>
    /\ \A e \in Range(resource.endpoints) :
         \E m \in Range(Last.methods) :
           m.name = e.operation_id /\ HasHttpMarker(m)
    /\ \A m \in Range(Last.methods) :
         ~HasHttpMarker(m) =>
           \A e \in Range(resource.endpoints) : e.operation_id # m.name

C7_Witness ==
  /\ idx > 1
  /\ resource # None
  /\ resource.endpoints # <<>>
  /\ \E m \in Range(Last.methods) : ~HasHttpMarker(m) /\ HasPathDecl(m)

\* C8: every extracted parameter is required exactly when its location is
\* path: the parameter of a path binding is required, the parameter of a
\* query, header or cookie binding is not.
C8_RequiredIffPath ==
  called =>
    LET declared == DeclaredBindings(arg_args)
    IN /\ Len(ret) = Len(declared)
       /\ \A i \in 1..Len(ret) :
            /\ ret[i].required <=> (ret[i].in_ = "path")
            /\ ret[i].required <=> (declared[i].bind = "PathParam")

C8_Witness ==
  /\ called
  /\ \E i, j \in 1..Len(ret) :
       /\ ret[i].in_ = "path" /\ ret[i].required
       /\ ret[j].in_ = "query" /\ ~ret[j].required

\* C9: every method that carries both an HTTP-method annotation and a path
\* declaration, in either order, gets one endpoint with that HTTP method
\* and the class path combined with the declared method path.
C9_MethodPathCombined ==
  (idx > 1 /\ Last.ok) =>
    \A m \in Range(Last.methods) :
      (HasHttpMarker(m) /\ HasPathDecl(m)) =>
        /\ resource # None
        /\ \E e \in Range(resource.endpoints) :
             /\ e.operation_id = m.name
             /\ e.method = DeclaredHttp(m)
             /\ e.path = _combine_paths(resource.base_path, DeclaredPath(m))

\* C10: the parameter list of an endpoint holds one parameter per
\* path/query/header/cookie binding of the method's argument list, in
\* argument order, with the declared name and the matching location.
C10_AllBindingsExtracted ==
  (idx > 1 /\ resource # None) =>
    \A e \in Range(resource.endpoints) :
      \A m \in Range(Last.methods) :
        m.name = e.operation_id =>
          LET declared == DeclaredBindings(m.args)
          IN /\ Len(e.parameters) = Len(declared)
             /\ \A i \in 1..Len(declared) :
                  /\ e.parameters[i].name = declared[i].pname
                  /\ e.parameters[i].in_ =
                       JAX_RS_PARAM_LOCATION[declared[i].bind]

====
